---- MODULE Spec2Model ----
(***************************************************************************)
(* The real-time messaging / presence subsystem of the vehicle rental      *)
(* backend: main_app/routers/websocket.py.                                 *)
(*                                                                         *)
(* The program is a set of asyncio tasks sharing one ConnectionManager:    *)
(* one websocket_endpoint task per socket, one heartbeat_task per          *)
(* acknowledged connection, and REST handlers that call                    *)
(* notify_new_message / notify_message_read.  Tasks are switched only at   *)
(* an `await`; every action below is the code that runs from the           *)
(* resumption of one await to the suspension at the next one.              *)
(***************************************************************************)
EXTENDS Integers, Sequences, FiniteSets, TLC

\* ------------------------------------------------------------------ bounds
NumSockets == 2  \* WebSocket objects (one per connection attempt)
MaxClock == 1    \* values datetime.now() can return: 0..MaxClock
MaxRequests == 1 \* send_message requests served
MaxCancels == 1  \* task cancellations (task.cancel() by the server)

\* -------------------------------------------------------------- constants
AUTH_CLOSE_CODE == 4001

Sockets == 1..NumSockets
Users == {"u1", "u2"}
Bookings == {"b1", "b2"}
Times == 0..MaxClock
\* Tasks that run send_to_user: a websocket_endpoint task (named by its
\* socket) inside broadcast_typing, and the REST handlers (task 0) inside
\* notify_new_message / notify_message_read.
Notifiers == {0}
Callers == Sockets \cup Notifiers

None == <<>>
NoToken == "none"
\* A field that is absent from the frame, null or empty.
Missing == "missing"
\* A field whose value is a non-empty JSON array or object: it cannot be a
\* dict key (`in`, `.get` and subscription raise TypeError).
Unhashable == "unhashable"
\* The is_typing of a frame, stored and forwarded as sent: the JSON booleans
\* (an absent field counts as false) and a value that is not a boolean.
IsTypingValues == {"true", "false", "yes"}

\* Bearer credentials a client can present: one valid token per user and the
\* four ways jwt.decode / the subject check can fail.
BadTokens == {"expired", "badsig", "malformed", "nosub"}
Tokens == Users \cup BadTokens

\* f"{user_id}_{datetime.now().timestamp()}": the id is a function of the
\* user id and the clock value read, and of nothing else.
ConnectionId(user_id, now) == <<user_id, now>>
ConnIds == {ConnectionId(u, t) : u \in Users, t \in Times}

VARIABLES
    clock,                 \* the value datetime.now() returns
    active_connections,    \* dict connection_id -> WebSocket
    user_connections,      \* dict user_id -> list of connection_id
    user_status,           \* dict user_id -> "online" | "offline"
    typing_status,         \* dict booking_id -> dict user_id -> is_typing as sent
    connection_heartbeat,  \* dict connection_id -> datetime
    token,                 \* per socket: the credential presented (NoToken before)
    hpc,                   \* per socket: where websocket_endpoint is suspended
    hcid,                  \* per socket: websocket_endpoint's connection_id
    link,                  \* per socket: "open" | "broken" transport
    close_code,            \* per socket: code given to websocket.close (0: none)
    hb,                    \* per socket: where its heartbeat_task is suspended
                           \* ("done", "failed", "cancelled": it has ended)
    calls,                 \* per caller: its send_to_user call
    reply,                 \* per socket: the frame whose send_text the
                           \* endpoint itself awaits (NoFrame: none)
    request,               \* the send_message request of the REST handler
    cancels,               \* task cancellations so far
    closed                 \* history: sockets whose connection id has been
                           \* removed from active_connections

registry_vars == <<active_connections, user_connections, user_status,
                   connection_heartbeat>>
vars == <<clock, active_connections, user_connections, user_status,
          typing_status, connection_heartbeat, token, hpc, hcid, link,
          close_code, hb, calls, reply, request, cancels, closed>>

\* ------------------------------------------------------------ dictionaries
Put(d, k, v) == [x \in (DOMAIN d) \cup {k} |-> IF x = k THEN v ELSE d[x]]
Del(d, k) == [x \in (DOMAIN d) \ {k} |-> d[x]]
EmptyDict == <<>>
Range(s) == {s[i] : i \in DOMAIN s}

\* The four maps of the registry as one value, so that connect and
\* disconnect are functions from registry to registry.
Registry == [active_connections |-> active_connections,
             user_connections |-> user_connections,
             user_status |-> user_status,
             connection_heartbeat |-> connection_heartbeat]

SetRegistry(r) ==
    /\ active_connections' = r.active_connections
    /\ user_connections' = r.user_connections
    /\ user_status' = r.user_status
    /\ connection_heartbeat' = r.connection_heartbeat
    /\ closed' = closed \cup
          {w \in Sockets : /\ hcid[w] \in DOMAIN active_connections
                           /\ hcid[w] \notin DOMAIN r.active_connections}

\* ------------------------------------------------------- ConnectionManager
\* connect, after `await websocket.accept()` has returned: the registry it
\* leaves and the connection id it returns.  The clock is read twice:
\* `now` at line 23 for the id, `now_utc` at line 26 for the heartbeat.
connect(r, websocket, user_id, now, now_utc) ==
    LET connection_id == ConnectionId(user_id, now)
        old == IF user_id \in DOMAIN r.user_connections
               THEN r.user_connections[user_id] ELSE <<>>
    IN [registry |->
          [active_connections |-> Put(r.active_connections, connection_id, websocket),
           connection_heartbeat |-> Put(r.connection_heartbeat, connection_id, now_utc),
           user_connections |-> Put(r.user_connections, user_id,
                                    Append(old, connection_id)),
           user_status |-> Put(r.user_status, user_id, "online")],
        connection_id |-> connection_id]

\* disconnect as it would be without line 49: the presence of a user whose
\* last connection goes is left as it was.
disconnect_keeps_status(r, connection_id, user_id) ==
    LET ac == Del(r.active_connections, connection_id)
        ch == Del(r.connection_heartbeat, connection_id)
        rest == IF user_id \in DOMAIN r.user_connections
                THEN SelectSeq(r.user_connections[user_id],
                               LAMBDA conn : conn # connection_id)
                ELSE <<>>
    IN [active_connections |-> ac,
        connection_heartbeat |-> ch,
        user_connections |-> IF user_id \notin DOMAIN r.user_connections
                             THEN r.user_connections
                             ELSE IF rest = <<>>
                             THEN Del(r.user_connections, user_id)
                             ELSE Put(r.user_connections, user_id, rest),
        user_status |-> r.user_status]

\* disconnect as it would be without lines 42-49: the id stays in the user's
\* list.
disconnect_keeps_list(r, connection_id, user_id) ==
    [r EXCEPT !.active_connections = Del(@, connection_id),
              !.connection_heartbeat = Del(@, connection_id)]

\* disconnect as it would be with line 49 outside the `if user_id in
\* self.user_connections`: a call for a user without connections marks the
\* user offline.
disconnect_marks_offline(r, connection_id, user_id) ==
    LET rest == IF user_id \in DOMAIN r.user_connections
                THEN SelectSeq(r.user_connections[user_id],
                               LAMBDA conn : conn # connection_id)
                ELSE <<>>
    IN [active_connections |-> Del(r.active_connections, connection_id),
        connection_heartbeat |-> Del(r.connection_heartbeat, connection_id),
        user_connections |-> IF rest = <<>>
                             THEN Del(r.user_connections, user_id)
                             ELSE Put(r.user_connections, user_id, rest),
        user_status |-> IF rest = <<>>
                        THEN Put(r.user_status, user_id, "offline")
                        ELSE r.user_status]

\* disconnect as it would be without lines 39-40: the heartbeat entry of
\* the id is left behind.
disconnect_keeps_heartbeat(r, connection_id, user_id) ==
    LET rest == IF user_id \in DOMAIN r.user_connections
                THEN SelectSeq(r.user_connections[user_id],
                               LAMBDA conn : conn # connection_id)
                ELSE <<>>
    IN [active_connections |-> Del(r.active_connections, connection_id),
        connection_heartbeat |-> r.connection_heartbeat,
        user_connections |-> IF user_id \notin DOMAIN r.user_connections
                             THEN r.user_connections
                             ELSE IF rest = <<>>
                             THEN Del(r.user_connections, user_id)
                             ELSE Put(r.user_connections, user_id, rest),
        user_status |-> IF user_id \in DOMAIN r.user_connections /\ rest = <<>>
                        THEN Put(r.user_status, user_id, "offline")
                        ELSE r.user_status]

disconnect(r, connection_id, user_id) ==
    LET ac == IF connection_id \in DOMAIN r.active_connections
              THEN Del(r.active_connections, connection_id)
              ELSE r.active_connections
        ch == IF connection_id \in DOMAIN r.connection_heartbeat
              THEN Del(r.connection_heartbeat, connection_id)
              ELSE r.connection_heartbeat
        rest == IF user_id \in DOMAIN r.user_connections
                THEN SelectSeq(r.user_connections[user_id],
                               LAMBDA conn : conn # connection_id)
                ELSE <<>>
    IN IF user_id \in DOMAIN r.user_connections
       THEN IF rest = <<>>
            THEN [active_connections |-> ac,
                  connection_heartbeat |-> ch,
                  user_connections |-> Del(r.user_connections, user_id),
                  user_status |-> Put(r.user_status, user_id, "offline")]
            ELSE [active_connections |-> ac,
                  connection_heartbeat |-> ch,
                  user_connections |-> Put(r.user_connections, user_id, rest),
                  user_status |-> r.user_status]
       ELSE [active_connections |-> ac,
             connection_heartbeat |-> ch,
             user_connections |-> r.user_connections,
             user_status |-> r.user_status]

\* update_heartbeat as it would be without its membership test.
update_heartbeat_creates(r, connection_id, now) ==
    [r EXCEPT !.connection_heartbeat = Put(@, connection_id, now)]

update_heartbeat(r, connection_id, now) ==
    IF connection_id \in DOMAIN r.connection_heartbeat
    THEN [r EXCEPT !.connection_heartbeat = Put(@, connection_id, now)]
    ELSE r

get_user_status(r, user_id) ==
    IF user_id \in DOMAIN r.user_status THEN r.user_status[user_id] ELSE "offline"

\* set_typing as it would be if a flag once true were never cleared.
set_typing_keeps_true(ts, booking_id, user_id, is_typing) ==
    LET inner == IF booking_id \in DOMAIN ts THEN ts[booking_id] ELSE EmptyDict
        old == IF user_id \in DOMAIN inner THEN inner[user_id] ELSE "false"
    IN Put(ts, booking_id,
           Put(inner, user_id, IF old = "true" THEN old ELSE is_typing))

\* The part of broadcast_typing before it awaits send_to_user.
set_typing(ts, booking_id, user_id, is_typing) ==
    LET inner == IF booking_id \in DOMAIN ts THEN ts[booking_id] ELSE EmptyDict
    IN Put(ts, booking_id, Put(inner, user_id, is_typing))

typing_message(booking_id, user_id, is_typing) ==
    [type |-> "typing_status", booking_id |-> booking_id,
     user_id |-> user_id, is_typing |-> is_typing]


\* ------------------------------------------------------------ send_to_user
\* A send_to_user call suspended at `await ...send_text(...)`:
\*   list          the list object the for loop iterates,
\*   aliased       whether that object is still user_connections[target]
\*                 (connect appends to the object in place, disconnect binds
\*                 a new list to the key),
\*   idx, sock     the position of the loop and the WebSocket being written,
\*   disconnected  the local list of ids whose send raised,
\*   log           the sends attempted so far (history, not program state),
\*   at_start      the user's list as it was when the call started (history),
\*   overtaken     whether another call with a payload of the same kind has
\*                 called send_text on sock since this call did (history:
\*                 frames are written to a transport in the order of the
\*                 send_text calls).
\* (sock 0: no socket.)
NoCall == [pc |-> "idle", target |-> "none", msg |-> [type |-> "none"],
           list |-> <<>>, aliased |-> FALSE, idx |-> 0, sock |-> 0,
           disconnected |-> <<>>, log |-> <<>>, at_start |-> <<>>,
           overtaken |-> FALSE]

RECURSIVE NextRegistered(_, _, _)
\* The first position at or after i whose id is in active_connections.
NextRegistered(list, i, ac) ==
    IF i > Len(list) THEN i
    ELSE IF list[i] \in DOMAIN ac THEN i
    ELSE NextRegistered(list, i + 1, ac)

RECURSIVE prune(_, _, _)
\* for conn_id in disconnected: self.disconnect(conn_id, user_id)
prune(r, disconnected, user_id) ==
    IF disconnected = <<>> THEN r
    ELSE prune(disconnect(r, Head(disconnected), user_id),
               Tail(disconnected), user_id)

\* send_loop as it would be without the try/except around send_text: the
\* first failed send ends the loop.
send_loop_stops_on_failure(r, c, i) ==
    LET j == NextRegistered(c.list, i, r.active_connections)
    IN IF j <= Len(c.list) /\ c.disconnected = <<>>
       THEN [registry |-> r,
             call |-> [c EXCEPT !.idx = j,
                                !.sock = r.active_connections[c.list[j]],
                                !.overtaken = FALSE],
             returned |-> None]
       ELSE [registry |-> prune(r, c.disconnected, c.target),
             call |-> NoCall, returned |-> None]

\* send_loop as it would be without the test of line 77, writing to the
\* WebSocket the id was issued for.
send_loop_unchecked(r, c, i) ==
    IF i <= Len(c.list)
    THEN [registry |-> r,
          call |-> [c EXCEPT !.idx = i,
                             !.sock = CHOOSE w \in Sockets : hcid[w] = c.list[i],
                             !.overtaken = FALSE],
          returned |-> None]
    ELSE [registry |-> prune(r, c.disconnected, c.target),
          call |-> NoCall, returned |-> None]

\* The for loop from position i up to its next await, or to the return.
\* `returned` is the value the call hands its caller when call.pc is "idle":
\* the function has no return statement, so it is None on every path.
send_loop(r, c, i) ==
    LET j == NextRegistered(c.list, i, r.active_connections)
    IN IF j <= Len(c.list)
       THEN [registry |-> r,
             call |-> [c EXCEPT !.idx = j,
                                !.sock = r.active_connections[c.list[j]],
                                !.overtaken = FALSE],
             returned |-> None]
       ELSE [registry |-> prune(r, c.disconnected, c.target),
             call |-> NoCall, returned |-> None]

\* send_to_user as it would be if it recorded a user without connections
\* as offline.
send_to_user_marks_offline(r, user_id, message) ==
    IF user_id \in DOMAIN r.user_connections
    THEN send_loop(r, [NoCall EXCEPT !.pc = "sending", !.target = user_id,
                                     !.msg = message,
                                     !.list = r.user_connections[user_id],
                                     !.at_start = r.user_connections[user_id],
                                     !.aliased = TRUE], 1)
    ELSE [registry |-> [r EXCEPT !.user_status = Put(@, user_id, "offline")],
          call |-> NoCall, returned |-> None]

\* The call up to its first await (or its return when nothing is awaited).
send_to_user(r, user_id, message) ==
    IF user_id \in DOMAIN r.user_connections
    THEN send_loop(r, [NoCall EXCEPT !.pc = "sending", !.target = user_id,
                                     !.msg = message,
                                     !.list = r.user_connections[user_id],
                                     !.at_start = r.user_connections[user_id],
                                     !.aliased = TRUE], 1)
    ELSE [registry |-> r, call |-> NoCall, returned |-> None]

\* The log of call c when its awaited send ends with `ok`.
log_after(c, ok) ==
    Append(c.log, [connection_id |-> c.list[c.idx], websocket |-> c.sock,
                   ok |-> ok])

\* The awaited send_text has returned (ok) or raised (~ok): the try/except
\* of the loop body, then the loop goes on.
send_resume(r, c, ok) ==
    LET connection_id == c.list[c.idx]
        c1 == [c EXCEPT !.log = log_after(c, ok),
                        !.disconnected = IF ok THEN @
                                         ELSE Append(@, connection_id)]
    IN send_loop(r, c1, c.idx + 1)

\* The payloads m1 and m2 tell the same thing: the typing state of one user
\* in one conversation.
same_subject(m1, m2) ==
    /\ m1.type = "typing_status" /\ m2.type = "typing_status"
    /\ m1.booking_id = m2.booking_id /\ m1.user_id = m2.user_id

\* Caller k has just called send_text (cs[k] is suspended in it): the calls
\* suspended in a send of the same subject on the same socket have been
\* overtaken.
written(cs, k) ==
    [j \in Callers |->
       IF /\ j # k /\ cs[k].pc = "sending" /\ cs[j].pc = "sending"
          /\ cs[j].sock = cs[k].sock
          /\ same_subject(cs[j].msg, cs[k].msg)
       THEN [cs[j] EXCEPT !.overtaken = TRUE]
       ELSE cs[j]]

\* What a registry change does to the list objects other calls iterate.
\* connect on an existing key appends to the list object itself.
alias_append(cs, r, user_id, connection_id) ==
    [k \in Callers |->
       IF /\ cs[k].pc = "sending" /\ cs[k].target = user_id /\ cs[k].aliased
          /\ user_id \in DOMAIN r.user_connections
       THEN [cs[k] EXCEPT !.list = Append(@, connection_id)]
       ELSE cs[k]]

\* disconnect on an existing key binds a new list (or deletes the key): the
\* calls that iterate the old object keep it, no longer shared.
alias_rebind(cs, r, user_id) ==
    [k \in Callers |->
       IF cs[k].target = user_id /\ user_id \in DOMAIN r.user_connections
       THEN [cs[k] EXCEPT !.aliased = FALSE]
       ELSE cs[k]]


\* ------------------------------------------------- messaging.send_message
\* The one booking of the model: its vehicle's owner and its renter.
owner_id == "u1"
renter_id == "u2"

\* A send_message request (POST /messages/send):
\*   pc         "none" | "notifying" (suspended in notify_new_message) | "done",
\*   n          requests started so far,
\*   recipient  the user notify_new_message is called for,
\*   committed  whether db.commit() has returned for the request's message,
\*   response   "none" | "success" | "404" | "500",
\*   sent, failed  how many sends of notify_new_message returned and how
\*                 many raised (history).
NoRequest == [pc |-> "none", n |-> 0, recipient |-> "none",
              committed |-> FALSE, response |-> "none",
              sent |-> 0, failed |-> 0]

\* What the database work of one send_message request does:
\*   "not_found"            the booking query returns nothing (lines 31-43),
\*   "fails_before_commit"  a statement up to and including db.commit()
\*                          raises (lines 27-79),
\*   "fails_after_commit"   db.commit() returns and db.refresh, the sender
\*                          query or sender.full_name raises (lines 80-86),
\*   "ok"                   nothing raises.
DbOutcomes == {"not_found", "fails_before_commit", "fails_after_commit", "ok"}

\* recipient_id of send_message, line 83.
recipient_id(user_id) == IF user_id = owner_id THEN renter_id ELSE owner_id

\* send_message as it would be if it answered 500 when a send of the
\* notification had failed.
send_message_reports_delivery(req, c, ok) ==
    LET log == IF c.pc = "sending" THEN log_after(c, ok) ELSE <<>>
        failed == Cardinality({i \in DOMAIN log : ~log[i].ok})
    IN [req EXCEPT !.pc = "done",
                   !.response = IF failed = 0 THEN "success" ELSE "500",
                   !.sent = Cardinality({i \in DOMAIN log : log[i].ok}),
                   !.failed = failed]

\* send_message from `await notify_new_message` returning to its return.
send_message_returns(req, c, ok) ==
    LET log == IF c.pc = "sending" THEN log_after(c, ok) ELSE <<>>
    IN [req EXCEPT !.pc = "done", !.response = "success",
                   !.sent = Cardinality({i \in DOMAIN log : log[i].ok}),
                   !.failed = Cardinality({i \in DOMAIN log : ~log[i].ok})]

\* ------------------------------------------------------- websocket_endpoint
\* jwt.decode and the subject check.  Every failure leaves the function as
\* an exception; which message it carries does not matter to the caller.
\* verify_websocket_token as it would be with expiry not verified.
verify_ignores_expiry(tok) ==
    IF tok \in Users \cup {"expired"}
    THEN [ok |-> TRUE, sub |-> IF tok \in Users THEN tok ELSE "u1"]
    ELSE [ok |-> FALSE, sub |-> "none"]

verify_websocket_token(tok) ==
    IF tok \in Users
    THEN [ok |-> TRUE, sub |-> tok]
    ELSE [ok |-> FALSE, sub |-> "none"]

user_of(w) == verify_websocket_token(token[w]).sub

\* Inbound text frames, as json.loads and the dispatch on "type" see them.
Frames ==
    {[kind |-> "object", type |-> "ping"],
     [kind |-> "object", type |-> "unknown"],
     [kind |-> "not_json", type |-> "none"],
     [kind |-> "not_object", type |-> "none"]}
    \cup {[kind |-> "object", type |-> "typing", booking_id |-> b,
           is_typing |-> t, other_user_id |-> o] :
             b \in Bookings \cup {Missing, Unhashable}, t \in IsTypingValues,
             o \in Users \cup {Missing, Unhashable}}
    \cup {[kind |-> "object", type |-> "get_status", target_user_id |-> x] :
             x \in Users \cup {Missing, Unhashable}}

\* The frames of clients whose typing frames all say is_typing = true and
\* name no conversation but "b1" (neither value decides what the handler
\* does; the clients of SpecTyping send every is_typing value, those of
\* SpecChat type in both conversations).
FramesTypingOn ==
    {f \in Frames :
       f.type = "typing" => (f.is_typing = "true" /\ f.booking_id # "b2")}

\* The frames the endpoint writes on its own socket.
NoFrame == [type |-> "none"]

connected_message(user_id, connection_id) ==
    [type |-> "connected", user_id |-> user_id, status |-> "online",
     connection_id |-> connection_id]

pong_message == [type |-> "pong"]

user_status_message(target_user_id, status) ==
    [type |-> "user_status", user_id |-> target_user_id, status |-> status]

\* The endpoint after `await manager.connect` as it would be without the
\* acknowledgement: it goes on to its receive loop.
after_connect_unacknowledged(connection_id) == "recv"

\* Where the endpoint is suspended after `await manager.connect` has
\* returned: in the send of the `connected` frame.
after_connect(connection_id) == "ack"

\* The except clauses as they would be if they only swallowed the error.
on_exception_ignores(r, connection_id, user_id) == r

\* The two except clauses at the end of websocket_endpoint.
on_exception(r, connection_id, user_id) ==
    IF connection_id # None THEN disconnect(r, connection_id, user_id) ELSE r

Init ==
    /\ clock = 0
    /\ active_connections = EmptyDict
    /\ user_connections = EmptyDict
    /\ user_status = EmptyDict
    /\ typing_status = EmptyDict
    /\ connection_heartbeat = EmptyDict
    /\ token = [w \in Sockets |-> NoToken]
    /\ hpc = [w \in Sockets |-> "connecting"]
    /\ hcid = [w \in Sockets |-> None]
    /\ link = [w \in Sockets |-> "open"]
    /\ close_code = [w \in Sockets |-> 0]
    /\ hb = [w \in Sockets |-> "none"]
    /\ calls = [k \in Callers |-> NoCall]
    /\ reply = [w \in Sockets |-> NoFrame]
    /\ request = NoRequest
    /\ cancels = 0
    /\ closed = {}

\* datetime.now() moves on.
Tick ==
    /\ clock < MaxClock
    /\ clock' = clock + 1
    /\ UNCHANGED <<request, cancels, registry_vars, closed, typing_status, token, reply,
                   hpc, hcid, link, close_code, hb, calls>>

\* The peer goes away or the transport fails: every later send_text,
\* receive_text and accept on the socket raises.
Break(w) ==
    /\ link[w] = "open"
    /\ link' = [link EXCEPT ![w] = "broken"]
    /\ UNCHANGED <<request, clock, cancels, registry_vars, closed, typing_status, token, reply, hpc, hcid,
                   close_code, hb, calls>>

\* websocket_endpoint from its start to `await manager.connect` (valid
\* credential) or to `await websocket.close(code=4001)`.
HandlerStart(w, tok) ==
    /\ hpc[w] = "connecting"
    /\ token' = [token EXCEPT ![w] = tok]
    /\ IF verify_websocket_token(tok).ok
       THEN /\ hpc' = [hpc EXCEPT ![w] = "accept"]
            /\ UNCHANGED close_code
       ELSE /\ hpc' = [hpc EXCEPT ![w] = "closing"]
            /\ close_code' = [close_code EXCEPT ![w] = AUTH_CLOSE_CODE]
    /\ UNCHANGED <<request, clock, cancels, registry_vars, closed, typing_status, hcid, link,
                   hb, calls, reply>>

\* `await websocket.accept()` returns or raises; connect then runs to its
\* return and the endpoint to `await websocket.send_text(connected)`.  The
\* clock may have moved on to now_utc between the two readings of connect.
HandlerAccept(w, now_utc) ==
    /\ hpc[w] = "accept"
    /\ now_utc >= clock
    /\ IF link[w] = "open"
       THEN LET res == connect(Registry, w, user_of(w), clock, now_utc)
            IN /\ SetRegistry(res.registry)
               /\ clock' = now_utc
               /\ hcid' = [hcid EXCEPT ![w] = res.connection_id]
               /\ hpc' = [hpc EXCEPT ![w] = after_connect(res.connection_id)]
               /\ reply' = [reply EXCEPT ![w] =
                              connected_message(user_of(w), res.connection_id)]
               /\ calls' = alias_append(calls, Registry, user_of(w),
                                        res.connection_id)
       ELSE /\ now_utc = clock
            /\ hpc' = [hpc EXCEPT ![w] = "done"]
            /\ UNCHANGED <<clock, registry_vars, closed, hcid, calls, reply>>
    /\ UNCHANGED <<request, cancels, typing_status, token, link, close_code, hb>>

\* The handler leaves through one of its except clauses.
HandlerFails(w) ==
    /\ SetRegistry(on_exception(Registry, hcid[w], user_of(w)))
    /\ calls' = [(IF hcid[w] # None
                  THEN alias_rebind(calls, Registry, user_of(w))
                  ELSE calls) EXCEPT ![w] = NoCall]
    /\ hpc' = [hpc EXCEPT ![w] = "done"]
    /\ reply' = [reply EXCEPT ![w] = NoFrame]

\* `await websocket.close(code=4001)` returns, and the handler returns, or
\* it raises, and the handler leaves through `except Exception` with
\* connection_id None: nothing is unregistered on either path.
HandlerClosed(w) ==
    /\ hpc[w] = "closing"
    /\ SetRegistry(on_exception(Registry, hcid[w], user_of(w)))
    /\ hpc' = [hpc EXCEPT ![w] = "done"]
    /\ UNCHANGED <<request, clock, cancels, typing_status, token, reply, hcid, link,
                   close_code, hb, calls>>

\* The `connected` frame is written (then create_task, which schedules the
\* heartbeat task, and the first receive_text) or its send raises.
HandlerAck(w) ==
    /\ hpc[w] = "ack"
    /\ IF link[w] = "open"
       THEN /\ hpc' = [hpc EXCEPT ![w] = "recv"]
            /\ hb' = [hb EXCEPT ![w] = "start"]
            /\ reply' = [reply EXCEPT ![w] = NoFrame]
            /\ UNCHANGED <<registry_vars, closed, calls>>
       ELSE /\ HandlerFails(w)
            /\ UNCHANGED hb
    /\ UNCHANGED <<request, clock, cancels, typing_status, token, hcid, link, close_code>>

\* receive_text raises WebSocketDisconnect (or a read error).
HandlerRecvFails(w) ==
    /\ hpc[w] = "recv"
    /\ link[w] = "broken"
    /\ HandlerFails(w)
    /\ UNCHANGED <<request, clock, cancels, typing_status, token, hcid, link, close_code, hb>>

\* `await manager.broadcast_typing(...)` as it would be if the call were
\* started as a task of its own: the loop goes on to its next receive_text.
after_broadcast_spawned(call) == "recv"

\* Where the handler is after `await manager.broadcast_typing(...)` has run
\* up to the first await of send_to_user, or to its return.
after_broadcast(call) == IF call.pc = "sending" THEN "fanout" ELSE "recv"

\* The typing user as it would be if the handler took it from a user_id
\* field of the frame when the frame has one.
typing_user_from_frame(w, f) ==
    IF "user_id" \in DOMAIN f THEN f.user_id ELSE user_of(w)

\* The user_id the handler passes to broadcast_typing: the subject of the
\* token, whatever the frame says.
typing_user(w, f) == user_of(w)

\* receive_text returns frame f: one turn of the loop up to its next await.
HandlerRecv(w, f) ==
    /\ hpc[w] = "recv"
    /\ link[w] = "open"
    /\ CASE f.kind # "object" ->
              \* json.loads raises, or message_data.get does
              /\ HandlerFails(w)
              /\ UNCHANGED typing_status
         [] f.kind = "object" /\ f.type = "ping" ->
              /\ SetRegistry(update_heartbeat(Registry, hcid[w], clock))
              /\ hpc' = [hpc EXCEPT ![w] = "pong"]
              /\ reply' = [reply EXCEPT ![w] = pong_message]
              /\ calls' = [calls EXCEPT ![w] = NoCall]
              /\ UNCHANGED typing_status
         [] f.kind = "object" /\ f.type = "typing" ->
              IF /\ f.booking_id = Unhashable
                 /\ f.other_user_id # Missing
              THEN \* `booking_id not in self.typing_status` of
                   \* broadcast_typing (line 57) raises TypeError
                   /\ HandlerFails(w)
                   /\ UNCHANGED typing_status
              ELSE IF f.booking_id # Missing /\ f.other_user_id = Unhashable
              THEN \* broadcast_typing stores the flag, then `user_id in
                   \* self.user_connections` of send_to_user raises TypeError
                   /\ typing_status' = set_typing(typing_status, f.booking_id,
                                                  typing_user(w, f), f.is_typing)
                   /\ HandlerFails(w)
              ELSE IF f.booking_id # Missing /\ f.other_user_id # Missing
              THEN LET res == send_to_user(Registry, f.other_user_id,
                                typing_message(f.booking_id, typing_user(w, f),
                                               f.is_typing))
                   IN /\ typing_status' = set_typing(typing_status, f.booking_id,
                                                     typing_user(w, f), f.is_typing)
                      /\ SetRegistry(res.registry)
                      /\ calls' = written([calls EXCEPT ![w] = res.call], w)
                      /\ hpc' = [hpc EXCEPT ![w] = after_broadcast(res.call)]
                      /\ UNCHANGED reply
              ELSE /\ calls' = [calls EXCEPT ![w] = NoCall]
                   /\ UNCHANGED <<registry_vars, closed, typing_status, hpc,
                                  reply>>
         [] f.kind = "object" /\ f.type = "get_status"
               /\ f.target_user_id = Unhashable ->
              \* user_status.get of get_user_status (line 70) raises
              \* TypeError
              /\ HandlerFails(w)
              /\ UNCHANGED typing_status
         [] f.kind = "object" /\ f.type = "get_status"
               /\ f.target_user_id # Unhashable ->
              /\ hpc' = [hpc EXCEPT ![w] =
                           IF f.target_user_id # Missing THEN "status"
                           ELSE "recv"]
              /\ reply' = [reply EXCEPT ![w] =
                             IF f.target_user_id # Missing
                             THEN user_status_message(f.target_user_id,
                                     get_user_status(Registry, f.target_user_id))
                             ELSE NoFrame]
              /\ calls' = [calls EXCEPT ![w] = NoCall]
              /\ UNCHANGED <<registry_vars, closed, typing_status>>
         [] f.kind = "object" /\ f.type = "unknown" ->
              /\ calls' = [calls EXCEPT ![w] = NoCall]
              /\ UNCHANGED <<registry_vars, closed, typing_status, hpc, reply>>
    /\ UNCHANGED <<request, clock, cancels, token, hcid, link, close_code, hb>>

\* The pong or user_status reply is written, or its send raises.
HandlerReplied(w) ==
    /\ hpc[w] \in {"pong", "status"}
    /\ IF link[w] = "open"
       THEN /\ hpc' = [hpc EXCEPT ![w] = "recv"]
            /\ reply' = [reply EXCEPT ![w] = NoFrame]
            /\ UNCHANGED <<registry_vars, closed, calls>>
       ELSE HandlerFails(w)
    /\ UNCHANGED <<request, clock, cancels, typing_status, token, hcid, link, close_code, hb>>


\* The task is cancelled while suspended at an await of the endpoint itself:
\* CancelledError is a BaseException, which neither `except
\* WebSocketDisconnect` nor `except Exception` catches.  (A task suspended
\* inside send_to_user is cancelled by SendCancelled.)
HandlerCancel(w) ==
    /\ hpc[w] \in {"closing", "accept", "ack", "recv", "pong", "status"}
    /\ cancels < MaxCancels
    /\ cancels' = cancels + 1
    /\ hpc' = [hpc EXCEPT ![w] = "done"]
    /\ calls' = [calls EXCEPT ![w] = NoCall]
    /\ reply' = [reply EXCEPT ![w] = NoFrame]
    /\ UNCHANGED <<request, clock, registry_vars, closed, typing_status, token, hcid,
                   link, close_code, hb>>

\* ------------------------------------------------- send_to_user, resumed
\* The send_text a call awaits returns (ok) or raises (~ok); the loop goes
\* on to its next await, or the call returns to its caller (a
\* websocket_endpoint task goes on to its next receive_text).
SendEnds(k, ok) ==
    /\ calls[k].pc = "sending"
    /\ LET res == send_resume(Registry, calls[k], ok)
       IN /\ SetRegistry(res.registry)
          /\ calls' = written([(IF res.call.pc = "idle"
                                    /\ (calls[k].disconnected # <<>> \/ ~ok)
                                 THEN alias_rebind(calls, Registry,
                                                   calls[k].target)
                                 ELSE calls) EXCEPT ![k] = res.call], k)
          /\ hpc' = IF k \in Sockets /\ res.call.pc = "idle"
                    THEN [hpc EXCEPT ![k] = "recv"]
                    ELSE hpc
          /\ request' = IF k = 0 /\ res.call.pc = "idle"
                           /\ request.pc = "notifying"
                        THEN send_message_returns(request, calls[k], ok)
                        ELSE request
    /\ UNCHANGED <<clock, typing_status, token, reply, hcid, link, close_code, hb>>

\* The awaited send_text returns on an open transport and raises on a
\* broken one.
SendResume(k) ==
    /\ calls[k].pc = "sending"
    /\ SendEnds(k, link[calls[k].sock] = "open")
    /\ UNCHANGED cancels

\* The task is cancelled while suspended in the send_text of send_to_user:
\* CancelledError is raised at the await and the bare `except:` of line 82
\* catches it, so the send counts as failed, the loop goes on and the task is
\* not cancelled.  (On a broken transport the outcome is that of SendResume.)
SendCancelled(k) ==
    /\ calls[k].pc = "sending"
    /\ link[calls[k].sock] = "open"
    /\ cancels < MaxCancels
    /\ cancels' = cancels + 1
    /\ SendEnds(k, FALSE)

\* notify_message_read, awaited by the REST handler get_messages after its
\* commit.  (The payload is kept as its type.)
notify_message_read(user_id) ==
    /\ calls[0].pc = "idle"
    /\ LET res == send_to_user(Registry, user_id, [type |-> "messages_read"])
       IN /\ SetRegistry(res.registry)
          /\ calls' = written([calls EXCEPT ![0] = res.call], 0)
    /\ UNCHANGED <<request, clock, cancels, typing_status, token, reply, hpc, hcid, link, close_code, hb>>

\* notify_new_message, awaited by the REST handler send_message.  (Its
\* payload is kept as its type.)
notify_new_message(user_id) ==
    /\ calls[0].pc = "idle"
    /\ LET res == send_to_user(Registry, user_id, [type |-> "new_message"])
       IN /\ SetRegistry(res.registry)
          /\ calls' = written([calls EXCEPT ![0] = res.call], 0)
    /\ UNCHANGED <<request, clock, cancels, typing_status, token, reply, hpc, hcid, link, close_code, hb>>

\* send_message from its start to `await notify_new_message` suspending in
\* a send, or to its return.  db: what the database work does.  Without a
\* booking the handler raises 404; any other exception is caught by `except
\* Exception`, which rolls back (nothing, once db.commit() has returned) and
\* answers 500 without calling notify_new_message.
send_message(user_id, db) ==
    /\ request.pc # "notifying"
    /\ request.n < MaxRequests
    /\ calls[0].pc = "idle"
    /\ IF db # "ok"
       THEN /\ request' = [NoRequest EXCEPT
                             !.pc = "done", !.n = request.n + 1,
                             !.committed = (db = "fails_after_commit"),
                             !.response = IF db = "not_found" THEN "404"
                                          ELSE "500"]
            /\ UNCHANGED <<registry_vars, closed, calls>>
       ELSE LET committed == [NoRequest EXCEPT
                                !.pc = "notifying", !.n = request.n + 1,
                                !.recipient = recipient_id(user_id),
                                !.committed = TRUE]
                res == send_to_user(Registry, recipient_id(user_id),
                                    [type |-> "new_message"])
            IN /\ SetRegistry(res.registry)
               /\ calls' = written([calls EXCEPT ![0] = res.call], 0)
               /\ request' = IF res.call.pc = "sending" THEN committed
                             ELSE send_message_returns(committed, res.call, TRUE)
    /\ UNCHANGED <<clock, cancels, typing_status, token, reply, hpc, hcid, link, close_code, hb>>

\* ------------------------------------------------------------ heartbeat_task
\* The task between two awaits: `while connection_id in active_connections`.
heartbeat_continues(r, connection_id) ==
    connection_id \in DOMAIN r.active_connections

\* The first step of the task, in a turn of the event loop after the
\* create_task that scheduled it: to its first sleep, or to its end when the
\* connection id is gone already.
HeartbeatStart(w) ==
    /\ hb[w] = "start"
    /\ hb' = [hb EXCEPT ![w] =
                IF heartbeat_continues(Registry, hcid[w]) THEN "sleep"
                ELSE "done"]
    /\ UNCHANGED <<request, clock, cancels, registry_vars, closed, typing_status, token, reply, hpc, hcid,
                   link, close_code, calls>>

\* asyncio.sleep(30) returns.
HeartbeatWake(w) ==
    /\ hb[w] = "sleep"
    /\ hb' = [hb EXCEPT ![w] =
                IF heartbeat_continues(Registry, hcid[w]) THEN "ping"
                ELSE "done"]
    /\ UNCHANGED <<request, clock, cancels, registry_vars, closed, typing_status, token, reply, hpc, hcid,
                   link, close_code, calls>>

\* The server ping is written, or its send raises into the bare `except:`
\* (the task then ends "failed"; it ends "done" when it leaves its loop).
HeartbeatPinged(w) ==
    /\ hb[w] = "ping"
    /\ IF link[w] = "open"
       THEN /\ hb' = [hb EXCEPT ![w] =
                        IF heartbeat_continues(Registry, hcid[w]) THEN "sleep"
                        ELSE "done"]
            /\ UNCHANGED <<registry_vars, closed, calls>>
       ELSE /\ SetRegistry(disconnect(Registry, hcid[w], user_of(w)))
            /\ calls' = alias_rebind(calls, Registry, user_of(w))
            /\ hb' = [hb EXCEPT ![w] = "failed"]
    /\ UNCHANGED <<request, clock, cancels, typing_status, token, reply, hpc, hcid, link, close_code>>

\* The task is cancelled: before its first step the coroutine ends at once;
\* in its sleep, or in the send of its ping, CancelledError is caught by the
\* bare `except:` of line 175 and the connection is unregistered.  (A ping
\* cancelled on a broken transport: the outcome is that of HeartbeatPinged.)
HeartbeatCancel(w) ==
    /\ \/ hb[w] \in {"start", "sleep"}
       \/ hb[w] = "ping" /\ link[w] = "open"
    /\ cancels < MaxCancels
    /\ cancels' = cancels + 1
    /\ hb' = [hb EXCEPT ![w] = "cancelled"]
    /\ IF hb[w] = "start"
       THEN UNCHANGED <<registry_vars, closed, calls>>
       ELSE /\ SetRegistry(disconnect(Registry, hcid[w], user_of(w)))
            /\ calls' = alias_rebind(calls, Registry, user_of(w))
    /\ UNCHANGED <<request, clock, typing_status, token, reply, hpc, hcid, link, close_code>>

\* ------------------------------------- the program with WebSocket clients
\* The /ws/chat endpoint with every credential and every frame (typing
\* frames switch the flag on), the heartbeat tasks, and up to MaxCancels
\* task cancellations; send_to_user is called through broadcast_typing (the
\* REST handlers that call it are in NextMessaging and NextLive).
Next ==
    \/ Tick
    \/ \E w \in Sockets : Break(w)
    \/ \E w \in Sockets, tok \in Tokens : HandlerStart(w, tok)
    \/ \E w \in Sockets, t \in Times : HandlerAccept(w, t)
    \/ \E w \in Sockets : HandlerClosed(w)
    \/ \E w \in Sockets : HandlerAck(w)
    \/ \E w \in Sockets : HandlerRecvFails(w)
    \/ \E w \in Sockets, f \in FramesTypingOn : HandlerRecv(w, f)
    \/ \E w \in Sockets : HandlerReplied(w)
    \/ \E w \in Sockets : HandlerCancel(w)
    \/ \E k \in Sockets : SendResume(k)
    \/ \E k \in Sockets : SendCancelled(k)
    \/ \E w \in Sockets : HeartbeatStart(w)
    \/ \E w \in Sockets : HeartbeatWake(w)
    \/ \E w \in Sockets : HeartbeatPinged(w)
    \/ \E w \in Sockets : HeartbeatCancel(w)

Spec == Init /\ [][Next]_vars

\* ------------------------------------------- the program with the REST flow
\* notify_new_message called where the code calls it: by send_message,
\* after its commit, and notify_message_read as get_messages calls it.  The
\* clients of this specification are authenticated and send pings only, so
\* that every send_to_user call is one of a REST handler; the task that may
\* be cancelled is that of the REST handler.
NextMessaging ==
    \/ Tick
    \/ \E w \in Sockets : Break(w)
    \/ \E w \in Sockets, tok \in Users : HandlerStart(w, tok)
    \/ \E w \in Sockets, t \in Times : HandlerAccept(w, t)
    \/ \E w \in Sockets : HandlerAck(w)
    \/ \E w \in Sockets : HandlerRecvFails(w)
    \/ \E w \in Sockets : HandlerRecv(w, [kind |-> "object", type |-> "ping"])
    \/ \E w \in Sockets : HandlerReplied(w)
    \/ \E k \in Notifiers : SendResume(k)
    \/ \E k \in Notifiers : SendCancelled(k)
    \/ \E u \in Users, db \in DbOutcomes : send_message(u, db)
    \/ \E u \in Users : notify_message_read(u)
    \/ \E w \in Sockets : HeartbeatStart(w)
    \/ \E w \in Sockets : HeartbeatWake(w)
    \/ \E w \in Sockets : HeartbeatPinged(w)

SpecMessaging == Init /\ [][NextMessaging]_vars

\* ------------------------------------------ the program with typing clients
\* Clients whose frames are all typing frames of one conversation towards
\* one recipient, with any is_typing value (broadcast_typing is called with
\* what the frame says), so that any two broadcast_typing calls of one user
\* are calls for the same conversation and the same recipient.
typing_recipient == "u1"

NextTyping ==
    \/ Tick
    \/ \E w \in Sockets : Break(w)
    \/ \E w \in Sockets, tok \in Users : HandlerStart(w, tok)
    \/ \E w \in Sockets, t \in Times : HandlerAccept(w, t)
    \/ \E w \in Sockets : HandlerAck(w)
    \/ \E w \in Sockets : HandlerRecvFails(w)
    \/ \E w \in Sockets,
          f \in {g \in Frames : /\ g.type = "typing"
                                /\ g.booking_id = "b1"
                                /\ g.other_user_id = typing_recipient} :
          HandlerRecv(w, f)
    \/ \E k \in Sockets : SendResume(k)
    \/ \E w \in Sockets : HeartbeatStart(w)
    \/ \E w \in Sockets : HeartbeatWake(w)
    \/ \E w \in Sockets : HeartbeatPinged(w)

SpecTyping == Init /\ [][NextTyping]_vars

\* ----------------------------------------- the program with chat clients
\* Typing frames of clients that add a user_id field naming user u2 (the
\* user of the sending connection or another one): any booking_id and
\* other_user_id (a conversation or a user, absent, an array or object),
\* is_typing true or false in the frames that name conversation "b1" and a
\* recipient, true in every other frame.
FramesNamingUser ==
    {f \in {[kind |-> "object", type |-> "typing", booking_id |-> b,
             is_typing |-> t, other_user_id |-> o, user_id |-> "u2"] :
               b \in Bookings \cup {Missing, Unhashable},
               t \in {"true", "false"},
               o \in Users \cup {Missing, Unhashable}} :
       (f.booking_id # "b1" \/ f.other_user_id = Missing)
          => f.is_typing = "true"}

\* The users a client of socket w authenticates as: the first client is
\* u1's, the second any user's (sockets and users are interchangeable).
ChatUsers(w) == IF w = 1 THEN {"u1"} ELSE Users

\* Authenticated clients that send pings, status queries (also for a target
\* that is an array or object) and typing frames in two conversations, each
\* typing frame naming a user, in sessions shorter than the 30 seconds a
\* heartbeat task sleeps; transports break at any time; the clock is seen
\* to advance at the connects only; no REST request and no cancellation.
NextChat ==
    \/ \E w \in Sockets : Break(w)
    \/ \E w \in Sockets : \E tok \in ChatUsers(w) : HandlerStart(w, tok)
    \/ \E w \in Sockets, t \in Times : HandlerAccept(w, t)
    \/ \E w \in Sockets : HandlerAck(w)
    \/ \E w \in Sockets : HandlerRecvFails(w)
    \/ \E w \in Sockets,
          f \in FramesNamingUser
                \cup {g \in Frames : g.type \in {"ping", "get_status"}} :
          HandlerRecv(w, f)
    \/ \E w \in Sockets : HandlerReplied(w)
    \/ \E k \in Sockets : SendResume(k)
    \/ \E w \in Sockets : HeartbeatStart(w)

SpecChat == Init /\ [][NextChat]_vars

\* --------------------------------------------- the program, scheduled fairly
\* The event loop runs every task that is ready: an awaited accept or
\* send_text returns or raises, and asyncio.sleep(30) returns.  Nothing
\* makes a client connect or send a frame, a REST request arrive, a
\* transport break or a task be cancelled, and a receive_text on a dead
\* transport need not ever raise.  The clients send pings only; the REST
\* handlers notify any user.
NextLive ==
    \/ Tick
    \/ \E w \in Sockets : Break(w)
    \/ \E w \in Sockets, tok \in Users : HandlerStart(w, tok)
    \/ \E w \in Sockets, t \in Times : HandlerAccept(w, t)
    \/ \E w \in Sockets : HandlerAck(w)
    \/ \E w \in Sockets : HandlerRecvFails(w)
    \/ \E w \in Sockets : HandlerRecv(w, [kind |-> "object", type |-> "ping"])
    \/ \E w \in Sockets : HandlerReplied(w)
    \/ \E w \in Sockets : HandlerCancel(w)
    \/ \E k \in Notifiers : SendResume(k)
    \/ \E k \in Notifiers : SendCancelled(k)
    \/ \E u \in Users : notify_new_message(u)
    \/ \E u \in Users : notify_message_read(u)
    \/ \E w \in Sockets : HeartbeatStart(w)
    \/ \E w \in Sockets : HeartbeatWake(w)
    \/ \E w \in Sockets : HeartbeatPinged(w)
    \/ \E w \in Sockets : HeartbeatCancel(w)

Fairness ==
    /\ \A w \in Sockets :
          /\ WF_vars(\E t \in Times : HandlerAccept(w, t))
          /\ WF_vars(HandlerAck(w))
          /\ WF_vars(HandlerReplied(w))
          /\ WF_vars(HeartbeatStart(w))
          /\ WF_vars(HeartbeatWake(w))
          /\ WF_vars(HeartbeatPinged(w))
    /\ \A k \in Notifiers : WF_vars(SendResume(k))

SpecLive == Init /\ [][NextLive]_vars /\ Fairness

\* ------------------------------------------------- the registry on its own
\* The ConnectionManager driven through its two mutators alone, by any
\* sequence of calls with any arguments (the endpoint only ever passes
\* disconnect the id and the user it got from connect).
program_vars == <<request, cancels, typing_status, token, reply, hpc, hcid, link, close_code, hb, calls>>

RegisterCall(w, user_id, now_utc) ==
    /\ user_id \in DOMAIN user_connections
          => Len(user_connections[user_id]) < NumSockets
    /\ now_utc >= clock
    /\ SetRegistry(connect(Registry, w, user_id, clock, now_utc).registry)
    /\ clock' = now_utc
    /\ UNCHANGED program_vars

UnregisterCall(connection_id, user_id) ==
    /\ SetRegistry(disconnect(Registry, connection_id, user_id))
    /\ UNCHANGED <<clock, program_vars>>

NextRegistry ==
    \/ Tick
    \/ \E w \in Sockets, u \in Users, t \in Times : RegisterCall(w, u, t)
    \/ \E c \in ConnIds, u \in Users : UnregisterCall(c, u)

SpecRegistry == Init /\ [][NextRegistry]_vars


\* ================================================================== claims
list_connections(user_id) ==
    IF user_id \in DOMAIN user_connections
    THEN user_connections[user_id] ELSE <<>>

\* list_connections in the state a step leads to.
list_connections_after(user_id) ==
    IF user_id \in DOMAIN user_connections'
    THEN user_connections'[user_id] ELSE <<>>

Owner(connection_id) == connection_id[1]

\* The step is the reading of frame f by the handler of socket w.  (What a
\* reading step leaves alone comes first, so that HandlerRecv is looked at
\* for the steps of w only.)
ReadsFrame(w, f) ==
    /\ hpc[w] = "recv"
    /\ link[w] = "open"
    /\ UNCHANGED <<clock, cancels, hcid, link, hb>>
    /\ \A v \in Sockets \ {w} : hpc'[v] = hpc[v]
    /\ HandlerRecv(w, f)

\* C1: after any sequence of connect and disconnect calls, for every user,
\* get_user_status is "online" if and only if the user's connection list is
\* non-empty.
C1_PresenceIffConnections ==
    \A u \in Users :
       get_user_status(Registry, u) = "online" <=> list_connections(u) # <<>>

\* A user is online with a connection while another has gone offline again.
C1_Witness ==
    \E u, v \in Users :
       /\ list_connections(u) # <<>>
       /\ get_user_status(Registry, u) = "online"
       /\ v \in DOMAIN user_status
       /\ user_status[v] = "offline"

\* C2: in every reachable state of the program, every list of
\* user_connections is non-empty, every id in it is a key of
\* active_connections, and every key of active_connections is in the list of
\* its owner; so a user is a key of the index iff one of its ids is registered.
C2_IndexMatchesRegistry ==
    /\ \A u \in DOMAIN user_connections :
          /\ user_connections[u] # <<>>
          /\ Range(user_connections[u]) \subseteq DOMAIN active_connections
    /\ \A c \in DOMAIN active_connections :
          c \in Range(list_connections(Owner(c)))
    /\ \A u \in Users :
          u \in DOMAIN user_connections
             <=> \E c \in DOMAIN active_connections : Owner(c) = u

\* One connection of a user has been unregistered while another connection
\* of the same user is still registered.
C2_Witness ==
    \E w1, w2 \in Sockets :
       /\ hcid[w1] # None /\ hcid[w1] \notin DOMAIN active_connections
       /\ hcid[w2] \in DOMAIN active_connections
       /\ Owner(hcid[w1]) = Owner(hcid[w2])


\* C3: two connect calls for one user, also when both read the same clock
\* value, return distinct connection ids.
C3_DistinctConnectionIds ==
    \A w1, w2 \in Sockets :
       (w1 # w2 /\ hcid[w1] # None /\ hcid[w2] # None)
          => hcid[w1] # hcid[w2]

\* The ids whose send has failed when the send awaited by call c ends
\* with `ok`.
FailedIds(c, ok) ==
    Range(c.disconnected) \cup (IF ok THEN {} ELSE {c.list[c.idx]})

\* The send caller k awaits returns in this step (a step in which it ends):
\* its transport is open and the task is not cancelled in it.
SendReturns(k) == link[calls[k].sock] = "open" /\ cancels' = cancels

\* Caller k's awaited send ends in this step.
Resumed(k) ==
    /\ calls[k].pc = "sending"
    /\ \/ calls'[k].pc = "idle"
       \/ Len(calls'[k].log) > Len(calls[k].log)

\* C4: a failed send (one that raises) does not stop the fan-out (the call goes on to every
\* later id that is registered, and returns only when none is left), the
\* registry is untouched until the call returns, and on return the user's
\* list has lost exactly the ids whose send failed, active_connections
\* exactly those keys, and no other user's list has changed.
C4_FailedSendPrunedOnly ==
    [][\A k \in Callers :
         Resumed(k) =>
           LET c == calls[k]
               ok == SendReturns(k)
               failed == FailedIds(c, ok)
               later == {j \in (c.idx + 1)..Len(c.list) :
                            c.list[j] \in DOMAIN active_connections}
           IN IF calls'[k].pc = "idle"
              THEN /\ later = {}
                   /\ list_connections_after(c.target) =
                        SelectSeq(list_connections(c.target),
                                  LAMBDA x : x \notin failed)
                   /\ DOMAIN active_connections' =
                        (DOMAIN active_connections) \ failed
                   /\ \A v \in Users \ {c.target} :
                        list_connections_after(v) = list_connections(v)
              ELSE /\ later # {}
                   /\ calls'[k].log[Len(c.log) + 1] =
                        [connection_id |-> c.list[c.idx],
                         websocket |-> c.sock, ok |-> ok]
                   /\ UNCHANGED registry_vars
    ]_vars

\* A call over two connections has delivered on the first and awaits the
\* send on the second, whose transport is broken.
C4_Witness ==
    \E k \in Callers :
       /\ calls[k].pc = "sending"
       /\ Len(calls[k].list) = 2
       /\ calls[k].list[1] # calls[k].list[2]
       /\ calls[k].idx = 2
       /\ Len(calls[k].log) = 1 /\ calls[k].log[1].ok
       /\ link[calls[k].sock] = "broken"
       /\ Range(calls[k].list) \subseteq DOMAIN active_connections

\* The handler is inside its receive loop: suspended at receive_text, at
\* the send of a reply, or inside broadcast_typing.
InReceiveLoop(w) == hpc[w] \in {"recv", "pong", "status", "fanout"}

\* C5: when the receive loop of a registered connection ends, for whatever
\* reason, and its handler finishes, the connection id is no longer
\* registered.
C5_ExitUnregisters ==
    [][\A w \in Sockets :
         (InReceiveLoop(w) /\ hpc'[w] = "done")
            => hcid[w] \notin DOMAIN active_connections'
    ]_vars

\* C6: a handler given a credential that fails verification closes the
\* socket with code 4001 and finishes when the close has ended, without
\* touching a registry map on the way; the socket never gets a connection
\* id, a heartbeat task or a place in active_connections, and its handler
\* never reaches the acknowledgement or the receive loop.
C6_AuthFailureClosesUntouched ==
    /\ [](\A w \in Sockets :
            token[w] \in BadTokens =>
               /\ hpc[w] \in {"closing", "done"}
               /\ close_code[w] = AUTH_CLOSE_CODE
               /\ hcid[w] = None
               /\ hb[w] = "none"
               /\ \A c \in DOMAIN active_connections :
                     active_connections[c] # w)
    /\ [][\A w \in Sockets :
            /\ (token[w] = NoToken /\ token'[w] \in BadTokens)
                  => UNCHANGED <<registry_vars, typing_status>>
            /\ (token[w] \in BadTokens /\ hpc'[w] # hpc[w])
                  => /\ hpc[w] = "closing" /\ hpc'[w] = "done"
                     /\ UNCHANGED <<registry_vars, typing_status, reply, hb>>
       ]_vars

\* A socket has been refused for an expired credential and its handler has
\* returned, while a connection of another socket is registered.
C6_Witness ==
    \E w, w2 \in Sockets :
       /\ token[w] = "expired" /\ close_code[w] = AUTH_CLOSE_CODE
       /\ hpc[w] = "done"
       /\ hcid[w2] \in DOMAIN active_connections

\* Frames the specification calls malformed.
MalformedFrames ==
    {f \in Frames :
       \/ f.kind # "object"
       \/ f.type = "unknown"
       \/ f.type = "typing" /\ (f.booking_id = Missing \/ f.other_user_id = Missing)
       \/ f.type = "typing" /\ Unhashable \in {f.booking_id, f.other_user_id}
       \/ f.type = "get_status" /\ f.target_user_id \in {Missing, Unhashable}}

\* C7: a malformed inbound frame is dropped: the handler stays in its
\* receive loop and the registry is as before.
C7_MalformedFrameDropped ==
    [][\A w \in Sockets, f \in MalformedFrames :
         ReadsFrame(w, f) => (hpc'[w] = "recv" /\ UNCHANGED registry_vars)
    ]_vars

\* connection_id is in none of the maps (it was never registered, or
\* disconnect has been called for it and user_id since).
NotRegistered(connection_id, user_id) ==
    /\ connection_id \notin DOMAIN active_connections
    /\ connection_id \notin DOMAIN connection_heartbeat
    /\ connection_id \notin Range(list_connections(user_id))

\* C8: disconnect for an id that is not registered (a second call, or an id
\* never issued) leaves every registry map as it was.
C8_DisconnectIdempotent ==
    [][\A c \in ConnIds, u \in Users :
         (NotRegistered(c, u) /\ UnregisterCall(c, u))
            => UNCHANGED registry_vars
    ]_vars

\* disconnect can be called a second time for the id of a user it has set
\* offline, or for an id not issued yet, while another connection is
\* registered.
C8_Witness ==
    /\ \E c \in ConnIds :
          /\ NotRegistered(c, Owner(c))
          /\ Owner(c) \in DOMAIN user_status
          /\ user_status[Owner(c)] = "offline"
    /\ \E c \in ConnIds : c[2] > clock /\ NotRegistered(c, Owner(c))
    /\ active_connections # EmptyDict

\* C9: connect followed at once by disconnect of the id it returned leaves
\* the four registry maps as they were before the connect.
C9_RegisterUnregisterRoundTrip ==
    \A w \in Sockets, u \in Users, t \in clock..MaxClock :
       LET res == connect(Registry, w, u, clock, t)
       IN disconnect(res.registry, res.connection_id, u) = Registry

\* C10: a broadcast_typing call sends its typing_status payload, in the
\* name of the connection's user, once on each registered connection of the
\* other user and on no socket of anyone else.
C10_TypingOncePerConnection ==
    \A w \in Sockets :
       hpc[w] = "fanout" =>
          LET c == calls[w]
          IN /\ c.msg.type = "typing_status"
             /\ c.msg.user_id = user_of(w)
             /\ user_of(c.sock) = c.target
             /\ \A i \in DOMAIN c.log :
                   /\ user_of(c.log[i].websocket) = c.target
                   /\ c.log[i].websocket # c.sock
                   /\ \A j \in DOMAIN c.log :
                         i # j => c.log[i].websocket # c.log[j].websocket

\* The sends of call c that have succeeded when its awaited send ends
\* with `ok`.
Delivered(c, ok) ==
    Cardinality({i \in DOMAIN c.log : c.log[i].ok}) + (IF ok THEN 1 ELSE 0)

\* C11: send_to_user returns the number of connections on which its send
\* succeeded: 0 for a user without a registered connection, and the count of
\* successful sends whenever a call returns.
C11_ReturnsDeliveredCount ==
    /\ [](\A u \in Users :
            list_connections(u) = <<>> =>
               LET res == send_to_user(Registry, u, [type |-> "new_message"])
               IN res.returned # None /\ res.returned = 0)
    /\ [][\A k \in Callers :
            (Resumed(k) /\ calls'[k].pc = "idle") =>
               LET ok == SendReturns(k)
                   res == send_resume(Registry, calls[k], ok)
               IN res.returned # None
                  /\ res.returned = Delivered(calls[k], ok)
       ]_vars

\* C12: send_to_user for a user without a registered connection awaits no
\* send and leaves the four registry maps as they are; the send_message
\* request that calls it for such a recipient changes no registry map,
\* starts no send and answers success with nothing sent and nothing failed.
C12_NoConnectionsNoOp ==
    /\ [](\A u \in Users :
            list_connections(u) = <<>> =>
               LET res == send_to_user(Registry, u, [type |-> "new_message"])
               IN res.registry = Registry /\ res.call = NoCall)
    /\ [][\A u \in Users :
            (list_connections(recipient_id(u)) = <<>> /\ send_message(u, "ok"))
               => /\ UNCHANGED <<registry_vars, calls>>
                  /\ request'.pc = "done" /\ request'.response = "success"
                  /\ request'.sent = 0 /\ request'.failed = 0
       ]_vars

\* A request has notified a recipient that never had a connection, while
\* another user has one.
C12_Witness ==
    /\ request.pc = "done" /\ request.response = "success"
    /\ request.recipient \notin DOMAIN user_status
    /\ request.sent = 0 /\ request.failed = 0
    /\ active_connections # EmptyDict

\* The sockets whose connection fails in a step: the handler leaves, the
\* heartbeat ping raises, or a send of a resumed send_to_user call has raised.
FailingSockets ==
    {w \in Sockets : hpc[w] # "done" /\ hpc'[w] = "done"}
    \cup {w \in Sockets : hb[w] = "ping" /\ hb'[w] = "failed"}
    \cup UNION {LET log == log_after(calls[k], SendReturns(k))
                IN {log[i].websocket : i \in {j \in DOMAIN log : ~log[j].ok}} :
                  k \in {c \in Callers : Resumed(c)}}

\* get_user_status in the state a step leads to.
get_user_status_after(user_id) ==
    IF user_id \in DOMAIN user_status' THEN user_status'[user_id] ELSE "offline"

\* The connection of socket w is registered.
Registered(w) == hcid[w] # None /\ hcid[w] \in DOMAIN active_connections

\* C13: a step in which connections fail leaves every other registered
\* connection registered, with its socket, its heartbeat entry, its place in
\* its user's list and its user online, and leaves the list and the presence
\* of every user that owns no failing connection as they were.
C13_FailureIsLocal ==
    [][FailingSockets # {} =>
         /\ \A w \in Sockets \ FailingSockets :
               Registered(w) =>
                  /\ hcid[w] \in DOMAIN active_connections'
                  /\ active_connections'[hcid[w]] = active_connections[hcid[w]]
                  /\ hcid[w] \in DOMAIN connection_heartbeat'
                  /\ connection_heartbeat'[hcid[w]] = connection_heartbeat[hcid[w]]
                  /\ hcid[w] \in Range(list_connections_after(user_of(w)))
                  /\ get_user_status_after(user_of(w)) = "online"
         /\ \A u \in Users \ {user_of(w) : w \in FailingSockets} :
               /\ list_connections_after(u) = list_connections(u)
               /\ get_user_status_after(u) = get_user_status(Registry, u)
    ]_vars

\* C14: a new_message notification is in flight only for a request whose
\* message is committed; a request whose database work does not fail
\* commits, calls the notification and answers success whatever its sends
\* did (none attempted, delivered, raised), its message staying committed;
\* a request that answers 404 or 500 has attempted no send, so no answer
\* depends on delivery (a request whose work fails after db.commit() has
\* returned answers 500 with its message committed, before any send).
C14_CommitBeforeNotify ==
    /\ [](/\ (calls[0].pc = "sending" /\ calls[0].msg.type = "new_message") =>
               /\ request.pc = "notifying" /\ request.committed
               /\ calls[0].target = request.recipient
          /\ request.response = "success" => request.committed
          /\ request.response \in {"404", "500"} =>
               (request.sent = 0 /\ request.failed = 0))
    /\ [][/\ \A u \in Users :
              send_message(u, "ok") =>
                 /\ request'.committed
                 /\ request'.response = IF calls'[0].pc = "sending"
                                        THEN "none" ELSE "success"
          /\ \A u \in Users, db \in DbOutcomes \ {"ok"} :
              send_message(u, db) =>
                 /\ request'.response \in {"404", "500"}
                 /\ UNCHANGED <<registry_vars, calls>>
          /\ request.pc = "notifying" =>
                 /\ request'.committed
                 /\ request'.response = IF calls'[0].pc = "sending"
                                        THEN "none" ELSE "success"
      ]_vars

\* A request has answered success although every send of its notification
\* raised.
C14_Witness ==
    /\ request.pc = "done" /\ request.response = "success"
    /\ request.committed
    /\ request.sent = 0 /\ request.failed >= 1

\* The heartbeat task of socket w has found its connection gone (its ping
\* raised) and has unregistered the connection id.
HeartbeatClosed(w) == hb[w] = "failed" /\ w \in closed

\* C15: once the heartbeat task has found the connection gone and the
\* connection is unregistered, the connection id is never registered again
\* and the handler of the connection reads no further inbound frame.
C15_ClosedIsTerminal ==
    /\ [](\A w \in Sockets :
            HeartbeatClosed(w) => hcid[w] \notin DOMAIN active_connections)
    /\ [][\A w \in Sockets, f \in Frames :
            HeartbeatClosed(w) => ~ReadsFrame(w, f)
       ]_vars

\* C16: once the connection id of a socket has been unregistered, the
\* heartbeat task of that socket starts no further ping on its transport (a
\* ping it has already started may still end).
C16_NoPingAfterUnregister ==
    [][\A w \in closed : hb'[w] = "ping" => hb[w] = "ping"]_vars

\* C17: a send_to_user call sends only to the connections that were in the
\* user's list when the call started: the position it is sending at lies
\* within that list, and every send it has attempted was to an id of it.
C17_FanOutOverSnapshot ==
    \A k \in Callers :
       calls[k].pc = "sending" =>
          /\ calls[k].idx <= Len(calls[k].at_start)
          /\ \A i \in DOMAIN calls[k].log :
                calls[k].log[i].connection_id \in Range(calls[k].at_start)

\* No two sockets have been given the same connection id.
NoIdCollision ==
    \A w1, w2 \in Sockets :
       (hcid[w1] # None /\ hcid[w1] = hcid[w2]) => w1 = w2

\* The broadcast_typing calls in flight for conversation b and typing user u.
TypingCalls(b, u) ==
    {k \in Sockets : /\ calls[k].pc = "sending"
                     /\ calls[k].msg.type = "typing_status"
                     /\ calls[k].msg.booking_id = b
                     /\ calls[k].msg.user_id = u}

\* C18: when the last of the broadcast_typing calls in flight for one
\* conversation and one typing user returns after a delivered send on a
\* registered connection of the recipient, the frame it delivered, which is
\* the last frame written on that connection (no call has written on it
\* since), carries the is_typing value stored for that user (connection ids
\* being distinct).
C18_LatestTypingWins ==
    [][\A k \in Sockets :
         (/\ NoIdCollision
          /\ Resumed(k) /\ calls'[k].pc = "idle"
          /\ calls[k].msg.type = "typing_status"
          /\ SendReturns(k)
          /\ ~calls[k].overtaken
          /\ Registered(calls[k].sock)
          /\ TypingCalls(calls[k].msg.booking_id, calls[k].msg.user_id) = {k})
            => calls[k].msg.is_typing =
                 typing_status[calls[k].msg.booking_id][calls[k].msg.user_id]
    ]_vars

\* C19: a send_to_user call, whoever makes it, attempts at most one send on
\* a transport: the socket it is writing to is none it has written to (or
\* failed to write to) before, and no socket appears twice among its
\* attempts.
C19_OneSendPerTransport ==
    \A k \in Callers :
       calls[k].pc = "sending" =>
          /\ \A i \in DOMAIN calls[k].log :
                calls[k].log[i].websocket # calls[k].sock
          /\ \A i, j \in DOMAIN calls[k].log :
                i # j => calls[k].log[i].websocket # calls[k].log[j].websocket

\* C20: a handler has at most one frame in hand: while the fan-out a typing
\* frame started is in flight the handler is inside broadcast_typing, and a
\* frame is read only by a handler suspended in receive_text, with no reply
\* and no fan-out of an earlier frame pending; the handling of a frame ends
\* in the next read or in the end of the handler.
C20_FramesInArrivalOrder ==
    /\ [](\A w \in Sockets : calls[w].pc = "sending" <=> hpc[w] = "fanout")
    /\ [][\A w \in Sockets :
            /\ \/ hpc[w] = "recv" /\ calls[w].pc = "idle"
               \/ \A f \in Frames : ~ReadsFrame(w, f)
            /\ hpc[w] \in {"pong", "status", "fanout"}
                  => hpc'[w] \in {hpc[w], "recv", "done"}
       ]_vars

\* A handler is in the middle of the fan-out of a typing frame: it has
\* delivered on one connection of the recipient and awaits the send on the
\* next, while its own transport is open.
C20_Witness ==
    \E w \in Sockets :
       /\ hpc[w] = "fanout" /\ link[w] = "open"
       /\ Len(calls[w].log) >= 1 /\ calls[w].log[1].ok

\* C21: the steps of an authenticated connection come in this order: the
\* connection is registered with its user online, then the `connected` frame
\* with the user id, "online" and the id connect returned is sent, then the
\* heartbeat task is started, then the first frame is read; no frame is read
\* by a handler whose connection has not been registered and acknowledged.
C21_RegisterAckHeartbeatRead ==
    /\ [](\A w \in Sockets :
            /\ hpc[w] = "ack" =>
                  /\ hcid[w] # None /\ hb[w] = "none"
                  /\ reply[w] = [type |-> "connected", user_id |-> user_of(w),
                                 status |-> "online", connection_id |-> hcid[w]]
            /\ hb[w] # "none" => hcid[w] # None
            /\ InReceiveLoop(w) => (hcid[w] # None /\ hb[w] # "none"))
    /\ [][\A w \in Sockets :
            /\ (hcid[w] = None /\ hcid'[w] # None) =>
                  /\ hcid'[w] \in DOMAIN active_connections'
                  /\ active_connections'[hcid'[w]] = w
                  /\ get_user_status_after(user_of(w)) = "online"
                  /\ hpc'[w] = "ack"
            /\ (hb[w] = "none" /\ hb'[w] # "none") =>
                  /\ hpc[w] = "ack" /\ link[w] = "open"
                  /\ hpc'[w] = "recv" /\ hb'[w] = "start"
            /\ \/ hb[w] # "none" /\ hcid[w] # None
               \/ \A f \in Frames : ~ReadsFrame(w, f)
       ]_vars

\* A registered and acknowledged connection, its heartbeat task started,
\* has read its first frame and is answering it.
C21_Witness ==
    \E w \in Sockets :
       /\ hpc[w] = "pong" /\ Registered(w) /\ hb[w] = "sleep"
       /\ connection_heartbeat[hcid[w]] = 1

\* User t has at least one registered connection.
HasRegisteredConnection(t) ==
    \E c \in DOMAIN active_connections : Owner(c) = t

\* The values a target_user_id that is present can have: a user id, or an
\* array or object.
StatusTargets == Users \cup {Unhashable}

\* C22: a get_status frame with a target_user_id (a user id, or an array or
\* object, which names no user with a connection), read on an active
\* connection, puts exactly one user_status reply for that target in flight
\* on the same connection and changes nothing else; its status is "online"
\* if and only if the target has a registered connection when the frame is
\* read ("offline" otherwise); the reply is in flight exactly while the
\* handler awaits its send; a get_status frame without a target puts
\* nothing in flight and changes nothing.
C22_StatusReplyIsPresence ==
    /\ [](\A w \in Sockets :
            hpc[w] = "status" <=> reply[w].type = "user_status")
    /\ [][\A w \in Sockets :
            /\ \A t \in StatusTargets :
                  ReadsFrame(w, [kind |-> "object", type |-> "get_status",
                                  target_user_id |-> t]) =>
                     /\ hpc'[w] = "status"
                     /\ reply'[w] =
                          [type |-> "user_status", user_id |-> t,
                           status |-> IF HasRegisteredConnection(t)
                                      THEN "online" ELSE "offline"]
                     /\ \A v \in Sockets \ {w} : reply'[v] = reply[v]
                     /\ UNCHANGED <<registry_vars, typing_status>>
            /\ ReadsFrame(w, [kind |-> "object", type |-> "get_status",
                               target_user_id |-> Missing]) =>
                  UNCHANGED <<registry_vars, typing_status, reply, hpc>>
            /\ (hpc[w] = "status" /\ hpc'[w] # "status") =>
                  /\ reply'[w] = NoFrame
                  /\ hpc'[w] \in {"recv", "done"}
                  /\ hpc'[w] = "recv" => link[w] = "open"
       ]_vars

\* C23: a ping frame read on an active connection sets the heartbeat entry
\* of that connection's id (if it has one) to the current time and puts one
\* pong in flight on the same socket; active_connections, user_connections,
\* user_status, typing_status, the keys of connection_heartbeat and the
\* entries of all other ids stay as they are; update_heartbeat for an id
\* without an entry changes nothing.
C23_PingTouchesOwnHeartbeat ==
    /\ [](\A c \in ConnIds, t \in Times :
            c \notin DOMAIN connection_heartbeat
               => update_heartbeat(Registry, c, t) = Registry)
    /\ [][\A w \in Sockets :
            ReadsFrame(w, [kind |-> "object", type |-> "ping"]) =>
               /\ hpc'[w] = "pong"
               /\ reply'[w] = [type |-> "pong"]
               /\ \A v \in Sockets \ {w} : reply'[v] = reply[v]
               /\ UNCHANGED <<active_connections, user_connections,
                              user_status, typing_status>>
               /\ DOMAIN connection_heartbeat' = DOMAIN connection_heartbeat
               /\ \A c \in DOMAIN connection_heartbeat :
                     connection_heartbeat'[c] =
                        IF c = hcid[w] THEN clock ELSE connection_heartbeat[c]
       ]_vars

\* A connection registered at time 0 has been pinged at time 1 and is
\* sending its pong, while the entry of another registered connection still
\* has its time of registration.
C23_Witness ==
    \E w1, w2 \in Sockets :
       /\ hpc[w1] = "pong" /\ Registered(w1) /\ hcid[w1][2] = 0
       /\ connection_heartbeat[hcid[w1]] = 1
       /\ Registered(w2) /\ hcid[w2] # hcid[w1]
       /\ connection_heartbeat[hcid[w2]] = hcid[w2][2]

\* The handler of socket w ends in this step.
HandlerExits(w) == hpc[w] # "done" /\ hpc'[w] = "done"

\* C24: a registered connection is unregistered only in a step in which its
\* own handler ends, a send of a send_to_user call on its transport has
\* failed, or the ping of its own heartbeat task fails; the age of its
\* heartbeat entry unregisters nothing, so a registered connection with an
\* open transport whose handler goes on stays registered, its user online.
C24_OnlyFailuresUnregister ==
    [][\A w \in Sockets :
         /\ (Registered(w) /\ hcid[w] \notin DOMAIN active_connections')
               => w \in FailingSockets
         /\ (Registered(w) /\ link[w] = "open" /\ ~HandlerExits(w))
               => /\ hcid[w] \in DOMAIN active_connections'
                  /\ get_user_status_after(user_of(w)) = "online"
    ]_vars

\* The typing flag stored in ts for conversation b and user u ("unset":
\* none stored).
Flag(ts, b, u) ==
    IF b \in DOMAIN ts /\ u \in DOMAIN ts[b] THEN ts[b][u] ELSE "unset"

\* Typing frame f is a typing event of a conversation: it names the
\* conversation and a recipient (a typing frame that lacks either field,
\* or whose booking_id is an array or object, is an event of no
\* conversation).
TypingEvent(f) == f.booking_id \in Bookings /\ f.other_user_id # Missing

\* C25: the typing flag of a conversation and a user changes only in a step
\* in which a handler of that user reads a typing event of that
\* conversation; such a step stores the frame's is_typing for that user and
\* conversation, whether or not the recipient has a connection (or can be
\* one), and leaves every other flag, those of the other conversation
\* included, alone; every other step (connect, disconnect, pruning, ping,
\* get_status, a typing frame that is an event of no conversation, the end
\* of a handler on a frame it cannot process) leaves typing_status
\* unchanged, and no flag is ever removed.
C25_TypingFlagOverwrittenOnly ==
    [][/\ \A b \in Bookings, u \in Users :
             Flag(typing_status', b, u) # Flag(typing_status, b, u) =>
                /\ Flag(typing_status', b, u) # "unset"
                /\ \E w \in Sockets, f \in FramesNamingUser :
                      /\ user_of(w) = u /\ f.booking_id = b
                      /\ TypingEvent(f) /\ ReadsFrame(w, f)
       /\ \A w \in Sockets, f \in FramesNamingUser :
             ReadsFrame(w, f) =>
                /\ \A b \in Bookings, u \in Users :
                      Flag(typing_status', b, u) =
                         IF TypingEvent(f) /\ b = f.booking_id /\ u = user_of(w)
                         THEN f.is_typing
                         ELSE Flag(typing_status, b, u)
                /\ DOMAIN typing_status' \subseteq Bookings
                /\ ~TypingEvent(f) => UNCHANGED typing_status
       /\ \/ UNCHANGED typing_status
          \/ \E w \in Sockets, f \in FramesNamingUser :
                TypingEvent(f) /\ ReadsFrame(w, f)
    ]_vars

\* A user has set the flag in both conversations and has then gone offline
\* with both flags still true, while no other user ever had a connection.
C25_Witness ==
    \E u \in Users :
       /\ Flag(typing_status, "b1", u) = "true"
       /\ Flag(typing_status, "b2", u) = "true"
       /\ u \in DOMAIN user_status /\ user_status[u] = "offline"
       /\ \A v \in Users \ {u} : v \notin DOMAIN user_status

\* Caller k's send_to_user call calls send_text in this step: a call starts
\* with a send, or the loop of a resumed call reaches its next send.
StartsSend(k) ==
    /\ calls'[k].pc = "sending"
    /\ \/ calls[k].pc # "sending"
       \/ Len(calls'[k].log) > Len(calls[k].log)

\* C26: whenever a send_to_user call calls send_text, the connection id it
\* sends for is a key of active_connections at that moment and the socket
\* written is the one registered for it; the ids of its list that the loop
\* has passed over since its previous send are not registered, and a call
\* that returns has left no registered id of its list unattempted.
C26_SendsOnlyToRegistered ==
    [][\A k \in Callers :
         /\ StartsSend(k) =>
               LET c == calls'[k]
                   prev == IF calls[k].pc = "sending" THEN calls[k].idx ELSE 0
               IN /\ c.list[c.idx] \in DOMAIN active_connections'
                  /\ c.sock = active_connections'[c.list[c.idx]]
                  /\ \A j \in (prev + 1)..(c.idx - 1) :
                        c.list[j] \notin DOMAIN active_connections
         /\ (Resumed(k) /\ calls'[k].pc = "idle") =>
               \A j \in (calls[k].idx + 1)..Len(calls[k].list) :
                  calls[k].list[j] \notin DOMAIN active_connections
    ]_vars

\* A fan-out over two connections is suspended in the send on the first,
\* whose transport is open, while the second has been unregistered.
C26_Witness ==
    \E k \in Callers :
       /\ calls[k].pc = "sending" /\ calls[k].idx = 1
       /\ Len(calls[k].list) = 2
       /\ link[calls[k].sock] = "open"
       /\ calls[k].list[1] \in DOMAIN active_connections
       /\ calls[k].list[2] \notin DOMAIN active_connections

\* The connection id of socket w is registered, to socket w.
RegisteredTo(w) ==
    /\ Registered(w)
    /\ active_connections[hcid[w]] = w

\* User u is online and every socket registered for u has a dead transport.
OnlineButDead(u) ==
    /\ get_user_status(Registry, u) = "online"
    /\ \A c \in DOMAIN active_connections :
          Owner(c) = u => link[active_connections[c]] = "broken"

\* C27: under fair scheduling, a registered connection whose transport is
\* dead is eventually unregistered, and a user who is online with dead
\* connections only eventually is not.
C27_DeadConnectionUnregistered ==
    /\ \A w \in Sockets :
          (RegisteredTo(w) /\ link[w] = "broken") ~> ~RegisteredTo(w)
    /\ \A u \in Users : OnlineButDead(u) ~> ~OnlineButDead(u)

\* C28: when the send of the `connected` frame raises, the handler ends in
\* that step with its connection id removed from active_connections,
\* connection_heartbeat and its user's list, the user offline if that id was
\* all the user's list held, and no heartbeat task started; a handler that
\* has ended stays ended and a heartbeat task is never started for it.
C28_FailedAckUnregisters ==
    [][\A w \in Sockets :
         /\ (link[w] = "broken" /\ HandlerAck(w)) =>
               /\ hpc'[w] = "done" /\ hb'[w] = "none"
               /\ hcid[w] \notin DOMAIN active_connections'
               /\ hcid[w] \notin DOMAIN connection_heartbeat'
               /\ hcid[w] \notin Range(list_connections_after(user_of(w)))
               /\ Range(list_connections(user_of(w))) = {hcid[w]}
                     => get_user_status_after(user_of(w)) = "offline"
         /\ hpc[w] = "done" => hpc'[w] = "done"
         /\ (hpc[w] = "done" /\ hb[w] = "none") => hb'[w] = "none"
    ]_vars

\* The acknowledgement of a user's only connection has failed: the handler
\* has ended without a heartbeat task, the id is unregistered and the user
\* is offline.
C28_Witness ==
    \E w \in Sockets :
       /\ hpc[w] = "done" /\ hcid[w] # None /\ hb[w] = "none"
       /\ link[w] = "broken" /\ w \in closed
       /\ hcid[w] \notin DOMAIN active_connections
       /\ get_user_status(Registry, user_of(w)) = "offline"
       /\ \A v \in Sockets \ {w} : hcid[v] = None

\* C29: every typing_status payload a handler has in flight carries the
\* subject of that handler's token as its user_id; a typing frame, whatever
\* user, conversation and recipient it names, changes the flag of no user
\* but the handler's subject and starts a notification in the name of that
\* subject only; a typing event sets the subject's flag of its
\* conversation, any other typing frame sets no flag and starts no
\* notification.
C29_TypingInOwnNameOnly ==
    /\ [](\A k \in Sockets :
            calls[k].pc = "sending" =>
               /\ calls[k].msg.type = "typing_status"
               /\ calls[k].msg.user_id = user_of(k))
    /\ [][\A w \in Sockets, f \in FramesNamingUser :
            ReadsFrame(w, f) =>
               /\ \A b \in Bookings, u \in Users \ {user_of(w)} :
                     Flag(typing_status', b, u) = Flag(typing_status, b, u)
               /\ TypingEvent(f) =>
                     Flag(typing_status', f.booking_id, user_of(w))
                        = f.is_typing
               /\ ~TypingEvent(f) =>
                     /\ UNCHANGED typing_status
                     /\ calls'[w].pc # "sending"
               /\ calls'[w].pc = "sending" =>
                     calls'[w].msg = [type |-> "typing_status",
                                      booking_id |-> f.booking_id,
                                      user_id |-> user_of(w),
                                      is_typing |-> f.is_typing]
       ]_vars

\* A handler of one user is delivering a typing_status in that user's name
\* to a connection of the other user, whose flag has never been set.
C29_Witness ==
    \E w \in Sockets :
       /\ hpc[w] = "fanout"
       /\ calls[w].msg.user_id = user_of(w)
       /\ calls[w].target # user_of(w)
       /\ Flag(typing_status, "b1", user_of(w)) = "true"
       /\ Flag(typing_status, "b1", calls[w].target) = "unset"

\* C30: in every reachable state the ids with a heartbeat entry are exactly
\* the registered ids.
C30_HeartbeatKeysAreRegistered ==
    DOMAIN connection_heartbeat = DOMAIN active_connections

\* One connection has been unregistered and has no heartbeat entry, while
\* another is registered with an entry that a ping has touched since its
\* registration.
C30_Witness ==
    \E w1, w2 \in Sockets :
       /\ w1 \in closed /\ hcid[w1] \notin DOMAIN connection_heartbeat
       /\ Registered(w2)
       /\ hcid[w2] \in DOMAIN connection_heartbeat
       /\ connection_heartbeat[hcid[w2]] # hcid[w2][2]

====
